---- MODULE Spec2Model ----
(***************************************************************************)
(* TimeSeriesData (transito/transito.py): the per-star extraction loop     *)
(* get_star_data, the aperture measurement make_aperture, the header       *)
(* lookup get_keyword_value and the orchestrator do_photometry.            *)
(*                                                                         *)
(* A file is named by its position in the list the file search returns.   *)
(* Every entry of a list that the code appends per frame is a record       *)
(* [fn |-> file, v |-> value], so that the frame an entry came from can    *)
(* be read back.  Floating point quantities are kept as the tuple of the   *)
(* operands they are computed from; pi is taken as 3 in aperture areas,    *)
(* and r_out = 2.2 * r is compared in tenths of a pixel.                   *)
(*                                                                         *)
(* The parts of the program that do not share state are specified apart:   *)
(* Spec and SpecCap are the TimeSeriesData instance, SpecExt the choice    *)
(* of the FITS extension, SpecCut and SpecMask the sub-image of the        *)
(* centroid and its mask, SpecCal calibrate_data and                       *)
(* create_master_image_stack (utils/data.py).  Each of them leaves the     *)
(* variables of the others at rest.                                        *)
(***************************************************************************)
EXTENDS Integers, Sequences, FiniteSets, TLC

\* ------------------------------------------------------------- bounds
\* longest file list of the photometry runs
MaxFiles == 3
\* most reference stars in list_reference_stars
MaxRefs == 1
\* do_photometry calls made on one TimeSeriesData instance
MaxRuns == 2
\* the long file lists have 600 - CapSlack .. 600 + CapSlack files
CapSlack == 1

\* longest file name, in characters
MaxName == 4

\* largest pixel value of a sub-image, and most pixels of a sub-image
MaxPixel == 3

MaxSubPixels == 4

\* rows and columns of an image, and how far outside the image a
\* predicted position may lie
ImageSide == 45

MaxOutside == 2

\* most dark, bias or flat frames found, and most science frames
MaxCalFiles == 3

MaxScience == 2

\* min_number_files_in_directory=3
MinNumberFiles == 3

\* fits_files[0:600]
MaxFilesProcessed == 600

\* 0 is star_id (the target), j > 0 is the j-th reference star
Stars == 0 .. MaxRefs

None == [none |-> TRUE]

NoError == [exc |-> "none", line |-> 0]

Raised(exc, line) == [exc |-> exc, line |-> line]

\* ------------------------------------------------------------- frames
\* What one FITS file holds: whether its header gives a celestial WCS, whether
\* the five mapped keywords are in its header, the sky level per pixel, the
\* flux of each star above the sky within the aperture, and whether the
\* normalised flux of the frame lies outside the 10 sigma band of sigma_clip.
NormalPixels == [sky |-> 2, signal |-> [s \in Stars |-> 7], outlier |-> FALSE]

PixelData ==
    {NormalPixels, [NormalPixels EXCEPT !.outlier = TRUE]}
    \cup {[NormalPixels EXCEPT !.signal[s] = 0] : s \in Stars}

Frames ==
    {[wcs |-> TRUE, kw |-> TRUE, pix |-> p] : p \in PixelData}
    \cup {[wcs |-> FALSE, kw |-> k, pix |-> NormalPixels] : k \in BOOLEAN}
    \cup {[wcs |-> TRUE, kw |-> FALSE, pix |-> NormalPixels]}

GoodFrame == [wcs |-> TRUE, kw |-> TRUE, pix |-> NormalPixels]

VARIABLES
    \* constructor arguments
    fits_files, r, box_w, list_reference_stars,
    \* instance attributes
    good_frames_list, header, self_times, target_flux_sec, sigma_total,
    normalized_flux, times_clipped,
    \* get_star_data: its argument, its loop and its lists
    star, pos, brk, object_counts, background_in_object, exptimes, x_pos,
    y_pos, times, read_log,
    \* control: where the program is, who called get_star_data, the locals
    \* of do_photometry, the exception that ended the last call, its result
    pc, caller, dp, err, ret,
    \* the summary file, the calls made so far, the previous run's outcome
    rms_file, nruns, last

VARIABLES
    \* the last FITS read: who read, the file name, the extension chosen
    fits_read,
    \* the sub-image: the shape of data, the predicted position (in half
    \* pixels), the index ranges the slice selects
    data_shape, position, sub_image_idx,
    \* the mask: the pixels of sub_image, the mask of sub_image_cen
    sub_image, sub_image_cen,
    \* calibrate_data: its arguments and the lists the file search returns
    darks_list, bias_list, flats_list, files_list, flat_correction, verbose,
    \* calibrate_data: the temporary directory, the masters, the loop over
    \* the science frames and what it wrote, printed and compressed
    tmp_directory, masterdark, masterbias, masterflat, fn_index, cleaned,
    printed, fpacked,
    \* calibrate_data: where it is, the exception that ended it, and the
    \* calls of create_master_image_stack made so far
    cpc, cerr, stack_calls

reads == <<fits_read>>

centroid == <<data_shape, position, sub_image_idx, sub_image, sub_image_cen>>

cal_args == <<darks_list, bias_list, flats_list, files_list, flat_correction, verbose>>

calib ==
    <<cal_args, tmp_directory, masterdark, masterbias, masterflat, fn_index,
      cleaned, printed, fpacked, cpc, cerr, stack_calls>>

\* what no method of TimeSeriesData writes: the constructor arguments, and
\* the state of the functions outside the class
config == <<fits_files, r, box_w, list_reference_stars, reads, centroid, calib>>

results == <<self_times, target_flux_sec, sigma_total, normalized_flux, times_clipped>>

lists == <<object_counts, background_in_object, exptimes, x_pos, y_pos, times>>

vars ==
    <<config, good_frames_list, header, results, star, pos, brk, lists,
      read_log, pc, caller, dp, err, ret, rms_file, nruns, last>>

\* the variables of the TimeSeriesData instance
instance ==
    <<fits_files, r, box_w, list_reference_stars, good_frames_list, header,
      results, star, pos, brk, lists, read_log, pc, caller, dp, err, ret,
      rms_file, nruns, last>>

\* ------------------------------------------------------------- helpers
\* a value, with the file it was read or measured from
entry(fn, v) == [fn |-> fn, v |-> v]

\* self.r_out > self.box_w, with r_out = aperture_radius * 2.2
whole_box(rad, w) == rad * 22 > 2 * w * 10

out_of_box(rad, w) == rad * 22 > w * 10

always_celestial(f) == TRUE

\* wcs.is_celestial
is_celestial(f) == f.wcs

no_cap(files) == Len(files)

\* the number of files of fits_files[0:600]
slice_len(files) ==
    IF Len(files) < MaxFilesProcessed THEN Len(files) ELSE MaxFilesProcessed

keep_good_frames(old) == old

\* self.good_frames_list = list()
new_good_frames_list(old) == << >>

set_header_once(old, fn) == IF old = 0 THEN fn ELSE old

\* data, self.header = fits.getdata(fn, header=True, ext=ext)
header_after_read(old, fn) == fn

record_every_file(gfl, fn) == Append(gfl, fn)

\* else: continue
skipped_frame(gfl, fn) == gfl

\* get_keyword_value: the five values, or default when a keyword is missing.
\* The observation time of a file is its position in the list; the gain, the
\* readout noise and the instrument are kept with the file whose header they
\* were read from.
get_keyword_value(files, h, default) ==
    IF files[h].kw
    THEN [exp |-> 1, obstime |-> h, instr |-> entry(h, "camera"),
          readout |-> entry(h, 3), gain |-> entry(h, 2)]
    ELSE default

\* The properties exptime, obs_time, gain, readout, instrument read an
\* attribute of get_keyword_value(): with no header yet, or with None
\* returned, the attribute access raises AttributeError.
has_attribute(files, h) == h # 0 /\ get_keyword_value(files, h, None) # None

annulus_area(rad) == (3 * rad * rad * (484 - 256)) \div 100

\* target_apertures.area
area(rad) == 3 * rad * rad

not_below(a, b) == a >= b

\* assert phot_table["aperture_sum_0"] > phot_table["background_in_target"]
assert_above(a, b) == a > b

\* make_aperture for star s on the sub-image of frame f
make_aperture(f, s, rad) ==
    LET sky_bkg == f.pix.sky
        aperture_sum_0 == f.pix.signal[s] + f.pix.sky * area(rad)
        background_in_target == sky_bkg * area(rad)
    IN  [ok |-> assert_above(aperture_sum_0, background_in_target),
         counts |-> aperture_sum_0 - background_in_target,
         bkg |-> background_in_target]

\* wcs.all_world2pix(star.ra, star.dec, 0), unpacked as y, x
all_world2pix(s) == [y |-> 30 + s, x |-> 40 + s]

\* a[~mask]
compress(a, mask) ==
    LET idx == SelectSeq([k \in 1 .. Len(a) |-> k], LAMBDA k : ~mask[k])
    IN  [j \in 1 .. Len(idx) |-> a[idx[j]]]

\* sigma_clip(normalized_flux, sigma=10, maxiters=10, cenfunc=np.median).mask:
\* the library's mask, one flag per point; the frames it rejects are given
\* with the pixel data (outlier) instead of being computed from the fluxes.
sigma_clip(files, flux) == [k \in 1 .. Len(flux) |-> files[flux[k].fn].pix.outlier]

unclipped_flux(flux, mask) == flux

\* self.normalized_flux[~self.clipped_values_mask.mask]
clip_flux(flux, mask) == compress(flux, mask)

unclipped_times(t, mask) == t

\* self.times[~self.clipped_values_mask.mask]
clip_times(t, mask) == compress(t, mask)

\* flatten(times_clipped, normalized_flux, method="biweight", window_length=wl)
flatten(flux) == [k \in 1 .. Len(flux) |-> entry(flux[k].fn, <<"flat", flux[k].v>>)]

truncate_write(file, line) == <<line>>

\* open(file_rms_name, "a") ... file.write(line)
append_line(file, line) == Append(file, line)

\* the locals of do_photometry before it is called
NoLocals ==
    [save_rms |-> FALSE, detrend_data |-> FALSE, target_flux |-> << >>,
     background_in_object |-> << >>, exptimes |-> << >>, ccd_gain |-> 0,
     readout |-> 0, j |-> 0, reference_star_flux_sec |-> << >>,
     background_in_ref_star_sec |-> << >>]

NoRun == [status |-> "none"]

\* ------------------------------------------------------------- at rest
\* no FITS file read yet
NoRead == [reader |-> "none", fn |-> << >>, ext |-> 0]

ReadsAtRest == fits_read = NoRead

\* no sub-image cut or masked yet
CentroidAtRest ==
    /\ data_shape = <<0, 0>>
    /\ position = [y |-> 0, x |-> 0]
    /\ sub_image_idx = None
    /\ sub_image = << >>
    /\ sub_image_cen = None

\* an empty temporary directory
NoFiles == [dirs |-> {}, files |-> {}]

\* calibrate_data not called: no local is bound, nothing is written
CalibIdle ==
    /\ tmp_directory = NoFiles
    /\ masterdark = None
    /\ masterbias = None
    /\ masterflat = None
    /\ fn_index = 0
    /\ cleaned = << >>
    /\ printed = << >>
    /\ fpacked = << >>
    /\ cpc = "idle"
    /\ cerr = NoError
    /\ stack_calls = << >>

CalibAtRest ==
    /\ darks_list = << >>
    /\ bias_list = << >>
    /\ flats_list = << >>
    /\ files_list = << >>
    /\ flat_correction = TRUE
    /\ verbose = TRUE
    /\ CalibIdle

\* ------------------------------------------------------------- Init
FileLists == UNION {[1 .. n -> Frames] : n \in 0 .. MaxFiles}

\* n files, all of them good frames except the last
LongList(n, f) == [k \in 1 .. n |-> IF k = n THEN f ELSE GoodFrame]

LongFileLists ==
    {LongList(n, f) :
        n \in (MaxFilesProcessed - CapSlack) .. (MaxFilesProcessed + CapSlack),
        f \in Frames}

ReferenceLists == {[j \in 1 .. n |-> j] : n \in 0 .. MaxRefs}

\* The instance after __init__: no header and no good_frames_list attribute
\* yet, no call in progress.
Constructed ==
    /\ r \in {5, 10}
    /\ box_w = 20
    /\ list_reference_stars \in ReferenceLists
    /\ good_frames_list = << >>
    /\ header = 0
    /\ self_times = << >>
    /\ target_flux_sec = << >>
    /\ sigma_total = << >>
    /\ normalized_flux = << >>
    /\ times_clipped = << >>
    /\ star = 0
    /\ pos = 0
    /\ brk = FALSE
    /\ object_counts = << >>
    /\ background_in_object = << >>
    /\ exptimes = << >>
    /\ x_pos = << >>
    /\ y_pos = << >>
    /\ times = << >>
    /\ read_log = << >>
    /\ pc = "idle"
    /\ caller = "none"
    /\ dp = NoLocals
    /\ err = NoError
    /\ ret = None
    /\ rms_file = << >>
    /\ last = NoRun

Init ==
    /\ fits_files \in FileLists
    /\ nruns = 0
    /\ Constructed
    /\ ReadsAtRest
    /\ CentroidAtRest
    /\ CalibAtRest

InitCap ==
    /\ fits_files \in LongFileLists
    /\ nruns = MaxRuns - 1
    /\ Constructed
    /\ ReadsAtRest
    /\ CentroidAtRest
    /\ CalibAtRest

\* an instance on which no method is called
InstanceAtRest ==
    /\ fits_files = << >>
    /\ nruns = 0
    /\ Constructed
    /\ r = 5
    /\ list_reference_stars = << >>

\* ------------------------------------------------------------- get_star_data
\* Lines 274-295: the file search, the six empty lists, the reset of
\* self.good_frames_list.  who is the caller the lists are returned to.
enter_get_star_data(s, who) ==
    /\ star' = s
    /\ caller' = who
    /\ pc' = "extract"
    /\ pos' = 1
    /\ brk' = FALSE
    /\ object_counts' = << >>
    /\ background_in_object' = << >>
    /\ exptimes' = << >>
    /\ x_pos' = << >>
    /\ y_pos' = << >>
    /\ times' = << >>
    /\ read_log' = << >>
    /\ good_frames_list' = new_good_frames_list(good_frames_list)

\* the frame of get_star_data is gone
leave_get_star_data ==
    /\ star' = 0
    /\ caller' = "none"
    /\ pos' = 0
    /\ brk' = FALSE
    /\ object_counts' = << >>
    /\ background_in_object' = << >>
    /\ exptimes' = << >>
    /\ x_pos' = << >>
    /\ y_pos' = << >>
    /\ times' = << >>

\* An exception nothing catches: it unwinds get_star_data and do_photometry,
\* which returns nothing and writes nothing.
raise(e) ==
    /\ pc' = "idle"
    /\ err' = e
    /\ ret' = None
    /\ dp' = NoLocals
    /\ leave_get_star_data
    /\ last' = IF caller = "direct" THEN last
               ELSE [status |-> "failed", detrend_data |-> dp.detrend_data,
                     err |-> e, normalized_flux |-> << >>, sigma_total |-> << >>]
    /\ UNCHANGED <<config, results, rms_file, nruns>>

\* the loop of line 297 has a next file
in_loop == pc = "extract" /\ ~brk /\ pos <= slice_len(fits_files)

\* the loop is over: every file of the slice was read, or line 313 broke out
loop_done == pc = "extract" /\ (brk \/ pos > slice_len(fits_files))

\* lines 298-303: the file at pos is read, self.header is its header
read_file ==
    /\ header' = header_after_read(header, pos)
    /\ read_log' = Append(read_log, pos)

\* A direct call get_star_data(star_id, data_directory, search_pattern)
get_star_data ==
    /\ pc = "idle"
    /\ nruns < MaxRuns
    /\ nruns' = nruns + 1
    /\ \E s \in Stars : enter_get_star_data(s, "direct")
    /\ err' = NoError
    /\ ret' = None
    /\ UNCHANGED <<config, header, results, dp, rms_file, last>>

\* lines 306, 349-350: no celestial WCS, the frame is skipped
SkipFrame ==
    /\ in_loop
    /\ ~is_celestial(fits_files[pos])
    /\ read_file
    /\ good_frames_list' = skipped_frame(good_frames_list, pos)
    /\ pos' = pos + 1
    /\ UNCHANGED <<config, results, star, brk, lists, pc, caller, dp, err,
                   ret, rms_file, nruns, last>>

\* lines 311-313: r_out > box_w, break
OutOfBox ==
    /\ in_loop
    /\ is_celestial(fits_files[pos])
    /\ out_of_box(r, box_w)
    /\ read_file
    /\ brk' = TRUE
    /\ UNCHANGED <<config, good_frames_list, results, star, pos, lists, pc,
                   caller, dp, err, ret, rms_file, nruns, last>>

\* line 330: self.exptime with a keyword missing: None.exp
MissingKeyword ==
    /\ in_loop
    /\ is_celestial(fits_files[pos])
    /\ ~out_of_box(r, box_w)
    /\ ~has_attribute(fits_files, header_after_read(header, pos))
    /\ read_file
    /\ raise(Raised("AttributeError", 330))
    /\ UNCHANGED good_frames_list

skip_faint_frame(e) ==
    /\ pos' = pos + 1
    /\ UNCHANGED <<config, good_frames_list, results, star, brk, lists, pc,
                   caller, dp, err, ret, rms_file, nruns, last>>

\* line 240 inside the call of lines 336-341: the AssertionError is caught
\* nowhere, the frame is not skipped
faint_frame(e) ==
    /\ raise(e)
    /\ UNCHANGED good_frames_list

\* lines 330-341: the exposure time is appended, then make_aperture's
\* assertion fails
FaintStar ==
    /\ in_loop
    /\ is_celestial(fits_files[pos])
    /\ ~out_of_box(r, box_w)
    /\ has_attribute(fits_files, header_after_read(header, pos))
    /\ ~make_aperture(fits_files[pos], star, r).ok
    /\ read_file
    /\ faint_frame(Raised("AssertionError", 240))

\* lines 306-348: a frame measured and appended to every list
GoodFrame_ ==
    /\ in_loop
    /\ is_celestial(fits_files[pos])
    /\ ~out_of_box(r, box_w)
    /\ has_attribute(fits_files, header_after_read(header, pos))
    /\ make_aperture(fits_files[pos], star, r).ok
    /\ read_file
    /\ LET kv == get_keyword_value(fits_files, header_after_read(header, pos), None)
           ap == make_aperture(fits_files[pos], star, r)
           xy == all_world2pix(star)
       IN  /\ exptimes' = Append(exptimes, entry(pos, kv.exp * 24 * 60 * 60))
           /\ object_counts' = Append(object_counts, entry(pos, ap.counts))
           /\ background_in_object' = Append(background_in_object, entry(pos, ap.bkg))
           /\ x_pos' = Append(x_pos, entry(pos, xy.x))
           /\ y_pos' = Append(y_pos, entry(pos, xy.y))
           /\ times' = Append(times, entry(pos, kv.obstime))
    /\ good_frames_list' = Append(good_frames_list, pos)
    /\ pos' = pos + 1
    /\ UNCHANGED <<config, results, star, brk, pc, caller, dp, err, ret,
                   rms_file, nruns, last>>

\* lines 352-353, to a direct caller
ReturnDirect ==
    /\ loop_done
    /\ caller = "direct"
    /\ ret' = [object_counts |-> object_counts,
               background_in_object |-> background_in_object,
               exptimes |-> exptimes, x_pos |-> x_pos, y_pos |-> y_pos,
               times |-> times]
    /\ pc' = "idle"
    /\ leave_get_star_data
    /\ UNCHANGED <<config, good_frames_list, header, results, read_log, dp,
                   err, rms_file, nruns, last>>

\* ------------------------------------------------------------- do_photometry
\* lines 388-400: the call, up to the extraction of the target star
do_photometry ==
    /\ pc = "idle"
    /\ nruns < MaxRuns
    /\ nruns' = nruns + 1
    /\ \E save \in BOOLEAN, detrend \in BOOLEAN :
          dp' = [NoLocals EXCEPT !.save_rms = save, !.detrend_data = detrend]
    /\ enter_get_star_data(0, "target")
    /\ err' = NoError
    /\ ret' = None
    /\ UNCHANGED <<config, header, results, rms_file, last>>

\* counts / exptimes, element by element (operands of one length)
per_second(counts, exps) ==
    [k \in 1 .. Len(counts) |-> entry(counts[k].fn, <<counts[k].v, exps[k]>>)]

\* lines 421-443: sigma_ron, sigma_phot and sigma_sky of each frame, combined
total_error(flux, bkg, exps, gain, readout, rad) ==
    [k \in 1 .. Len(flux) |->
        entry(flux[k].fn, <<flux[k].v, bkg[k].v, exps[k].v, gain, readout, rad>>)]

\* the reference-star loop of line 456 goes on with star j, or is over
next_reference(j) ==
    IF j <= Len(list_reference_stars)
    THEN enter_get_star_data(list_reference_stars[j], "ref")
    ELSE /\ pc' = "combine"
         /\ leave_get_star_data
         /\ UNCHANGED <<good_frames_list, read_log>>

\* line 419: self.gain with no header attribute, or with a keyword missing
TargetNoGain ==
    /\ loop_done
    /\ caller = "target"
    /\ ~has_attribute(fits_files, header)
    /\ raise(Raised("AttributeError", 419))
    /\ UNCHANGED <<good_frames_list, header, read_log>>

\* lines 402-451: the target's series and its error terms.  readout_noise has
\* len(self.good_frames_list) elements: numpy raises ValueError on operands
\* of different lengths (in every reachable state the lengths agree).
TargetStats ==
    /\ loop_done
    /\ caller = "target"
    /\ has_attribute(fits_files, header)
    /\ LET kv == get_keyword_value(fits_files, header, None)
       IN  IF Len(good_frames_list) # Len(object_counts)
           THEN /\ raise(Raised("ValueError", 425))
                /\ UNCHANGED <<good_frames_list, header, read_log>>
           ELSE /\ self_times' = times
                /\ target_flux_sec' = per_second(object_counts, exptimes)
                /\ sigma_total' =
                      total_error(object_counts, background_in_object, exptimes,
                                  kv.gain, kv.readout, r)
                /\ dp' = [dp EXCEPT !.target_flux = object_counts,
                                    !.background_in_object = background_in_object,
                                    !.exptimes = exptimes,
                                    !.ccd_gain = kv.gain,
                                    !.readout = kv.readout,
                                    !.j = 1]
                /\ next_reference(1)
                /\ UNCHANGED <<config, header, normalized_flux, times_clipped,
                               err, ret, rms_file, nruns, last>>

\* lines 460-470: one reference star's series, per second of the target's
\* exposure times
ReferenceDone ==
    /\ loop_done
    /\ caller = "ref"
    /\ IF Len(object_counts) # Len(dp.exptimes)
       THEN /\ raise(Raised("ValueError", 468))
            /\ UNCHANGED <<good_frames_list, header, read_log>>
       ELSE /\ dp' = [dp EXCEPT
                        !.reference_star_flux_sec =
                            Append(@, per_second(object_counts, dp.exptimes)),
                        !.background_in_ref_star_sec =
                            Append(@, per_second(background_in_object, dp.exptimes)),
                        !.j = @ + 1]
            /\ next_reference(dp.j + 1)
            /\ UNCHANGED <<config, header, results, err, ret, rms_file, nruns, last>>

\* lines 472-483 with no reference star: the empty array of reference fluxes
\* cannot be combined with the exposure times, or its weights sum to zero
NoReferenceStars ==
    /\ pc = "combine"
    /\ list_reference_stars = << >>
    /\ raise(IF Len(dp.exptimes) > 1 THEN Raised("ValueError", 475)
             ELSE Raised("ZeroDivisionError", 481))
    /\ UNCHANGED <<good_frames_list, header, read_log>>

\* lines 481-500: the reference fluxes of frame k, and the target's counts
\* over their weighted average
differential_flux(k) ==
    <<dp.target_flux[k].v,
      [j \in 1 .. Len(dp.reference_star_flux_sec) |->
          <<dp.reference_star_flux_sec[j][k].v,
            dp.background_in_ref_star_sec[j][k].v, dp.readout>>]>>

\* line 486: the summed reference flux of frame k
total_reference_flux_sec(k) ==
    [j \in 1 .. Len(dp.reference_star_flux_sec) |->
        dp.reference_star_flux_sec[j][k].v]

\* lines 472-573: the differential light curve, its clipping, the optional
\* detrending, the optional summary line, the returned tuple
Finish ==
    /\ pc = "combine"
    /\ list_reference_stars # << >>
    /\ IF ~has_attribute(fits_files, header)
       THEN raise(Raised("AttributeError", 515))
       ELSE LET n == Len(dp.target_flux)
                kv == get_keyword_value(fits_files, header, None)
                flux == [k \in 1 .. n |->
                           entry(dp.target_flux[k].fn, differential_flux(k))]
                mask == sigma_clip(fits_files, flux)
                clipped == clip_flux(flux, mask)
                final == IF dp.detrend_data THEN flatten(clipped) ELSE clipped
                line == [r |-> r, flux |-> final, instrument |-> kv.instr]
            IN  /\ normalized_flux' = final
                /\ times_clipped' = clip_times(self_times, mask)
                /\ rms_file' = IF dp.save_rms THEN append_line(rms_file, line)
                               ELSE rms_file
                /\ ret' = [target_flux_sec |-> target_flux_sec,
                           total_ref_flux_sec |->
                               [k \in 1 .. n |->
                                   entry(dp.target_flux[k].fn,
                                         total_reference_flux_sec(k))],
                           sigma_error |-> sigma_total,
                           times |-> self_times]
                /\ last' = [status |-> "done", detrend_data |-> dp.detrend_data,
                            err |-> NoError, normalized_flux |-> final,
                            sigma_total |-> sigma_total]
                /\ pc' = "idle"
                /\ dp' = NoLocals
                /\ UNCHANGED <<config, self_times, target_flux_sec, sigma_total,
                               star, pos, brk, lists, caller, err, nruns>>
    /\ UNCHANGED <<good_frames_list, header, read_log>>

\* ------------------------------------------------------------- specifications
Extract ==
    \/ SkipFrame
    \/ OutOfBox
    \/ MissingKeyword
    \/ FaintStar
    \/ GoodFrame_

Next ==
    \/ do_photometry
    \/ Extract
    \/ TargetNoGain
    \/ TargetStats
    \/ ReferenceDone
    \/ NoReferenceStars
    \/ Finish

Spec == Init /\ [][Next]_vars

\* one direct call of get_star_data on a list about 600 files long
NextCap ==
    \/ get_star_data
    \/ Extract
    \/ ReturnDirect

SpecCap == InitCap /\ [][NextCap]_vars

\* ------------------------------------------------------------- the FITS extension
\* File names are sequences of characters of a small alphabet, of at most
\* MaxName characters.
Chars == {"a", ".", "f", "z"}

Names == UNION {[1 .. n -> Chars] : n \in 0 .. MaxName}

contains(fn, suffix) ==
    \E k \in 1 .. Len(fn) - Len(suffix) + 1 :
        SubSeq(fn, k, k + Len(suffix) - 1) = suffix

\* fn.endswith(suffix)
endswith(fn, suffix) ==
    /\ Len(fn) >= Len(suffix)
    /\ SubSeq(fn, Len(fn) - Len(suffix) + 1, Len(fn)) = suffix

\* ext = 0; if fn.endswith(".fz"): ext = 1
ext_of(fn) == IF endswith(fn, <<".", "f", "z">>) THEN 1 ELSE 0

\* a file name, not read yet
InitExt ==
    /\ InstanceAtRest
    /\ fits_read \in {[NoRead EXCEPT !.fn = fn] : fn \in Names}
    /\ CentroidAtRest
    /\ CalibAtRest

\* transito.py lines 298-302: fits.getdata(fn, header=True, ext=ext)
getdata_in_loop ==
    /\ fits_read.reader = "none"
    /\ fits_read' = [fits_read EXCEPT !.reader = "get_star_data", !.ext = ext_of(fits_read.fn)]
    /\ UNCHANGED <<instance, centroid, calib>>

\* data.py lines 147-150: fits.getheader(fn, *args, ext=ext, **kwargs)
get_header ==
    /\ fits_read.reader = "none"
    /\ fits_read' = [fits_read EXCEPT !.reader = "get_header", !.ext = ext_of(fits_read.fn)]
    /\ UNCHANGED <<instance, centroid, calib>>

\* data.py lines 167-170: fits.getval(fn, *args, ext=ext, **kwargs)
get_value ==
    /\ fits_read.reader = "none"
    /\ fits_read' = [fits_read EXCEPT !.reader = "get_value", !.ext = ext_of(fits_read.fn)]
    /\ UNCHANGED <<instance, centroid, calib>>

\* data.py line 128: fits.getdata(fname, *args, header=False, **kwargs).
\* get_data chooses no extension: it is the one its caller passes, or the
\* one astropy takes when none is passed.
get_data ==
    /\ fits_read.reader = "none"
    /\ \E ext \in {0, 1} :
          fits_read' = [fits_read EXCEPT !.reader = "get_data", !.ext = ext]
    /\ UNCHANGED <<instance, centroid, calib>>

NextExt ==
    \/ getdata_in_loop
    \/ get_header
    \/ get_value
    \/ get_data

SpecExt == InitExt /\ [][NextExt]_vars

\* ------------------------------------------------------------- the sub-image
\* Predicted positions are in half pixels, from MaxOutside pixels before the
\* first row or column to MaxOutside pixels after the last.
HalfPixels == (0 - 2 * MaxOutside) .. 2 * (ImageSide + MaxOutside)

\* np.int(x) of a position of x2 half pixels: truncation towards zero
np_int(x2) == IF x2 >= 0 THEN x2 \div 2 ELSE 0 - ((0 - x2) \div 2)

\* a bound of a slice on an axis of n elements: a negative bound counts
\* from the end, and bounds are clipped to 0 .. n
slice_bound(i, n) ==
    IF i < 0 THEN (IF i + n < 0 THEN 0 ELSE i + n)
    ELSE (IF i > n THEN n ELSE i)

\* the indices (from 0) that a[start:stop] selects on an axis of n elements
slice(n, start, stop) ==
    {k \in 0 .. n - 1 : slice_bound(start, n) <= k /\ k < slice_bound(stop, n)}

InitCut ==
    /\ InstanceAtRest
    /\ ReadsAtRest
    /\ CalibAtRest
    /\ data_shape = <<ImageSide, ImageSide>>
    /\ position \in [y : HalfPixels, x : HalfPixels]
    /\ sub_image_idx = None
    /\ sub_image = << >>
    /\ sub_image_cen = None

\* lines 315-316: data[np.int(x) - box_w:np.int(x) + box_w,
\*                     np.int(y) - box_w:np.int(y) + box_w]
cut_sub_image ==
    /\ sub_image_idx = None
    /\ data_shape # <<0, 0>>
    /\ sub_image_idx' =
          [rows |-> slice(data_shape[1], np_int(position.x) - box_w,
                          np_int(position.x) + box_w),
           cols |-> slice(data_shape[2], np_int(position.y) - box_w,
                          np_int(position.y) + box_w)]
    /\ UNCHANGED <<instance, reads, calib, data_shape, position, sub_image, sub_image_cen>>

NextCut == cut_sub_image

SpecCut == InitCut /\ [][NextCut]_vars

\* ------------------------------------------------------------- the centroid mask
\* The pixels of sub_image, row after row (np.median and np.std are taken
\* over all the pixels, the mask is pixel by pixel).
SubImages == UNION {[1 .. n -> 0 .. MaxPixel] : n \in 1 .. MaxSubPixels}

RECURSIVE sum(_)
sum(a) == IF a = << >> THEN 0 ELSE Head(a) + sum(Tail(a))

\* the k-th smallest value of a
kth(a, k) ==
    CHOOSE v \in {a[i] : i \in 1 .. Len(a)} :
        /\ Cardinality({i \in 1 .. Len(a) : a[i] < v}) < k
        /\ k <= Cardinality({i \in 1 .. Len(a) : a[i] <= v})

\* twice np.median(a): the middle value, or the mean of the two middle values
median2(a) ==
    LET n == Len(a)
    IN  IF n % 2 = 1 THEN 2 * kth(a, (n + 1) \div 2)
        ELSE kth(a, n \div 2) + kth(a, n \div 2 + 1)

\* np.std(a) is sqrt(variance(a)) / Len(a), with
\* variance(a) = Len(a) * sum of squares - square of the sum
variance(a) == Len(a) * sum([k \in 1 .. Len(a) |-> a[k] * a[k]]) - sum(a) * sum(a)

\* threshold = np.median(sub_image - (sigma * np.std(sub_image))), sigma = 1.0:
\* median(a) - std(a), kept as its exact operands
threshold(a) == [median2 |-> median2(a), variance |-> variance(a), n |-> Len(a)]

\* v = t, that is 2 * v = median2 - 2 * std.  (For floating point data numpy
\* compares within a relative tolerance of 1e-5, which hides the rounding of
\* the threshold.)
equals_threshold(v, t) ==
    /\ t.median2 - 2 * v >= 0
    /\ (t.median2 - 2 * v) * (t.median2 - 2 * v) * t.n * t.n = 4 * t.variance

\* ma.masked_values(sub_image, threshold).mask: the pixels equal to threshold
masked_values(a, t) == [k \in 1 .. Len(a) |-> equals_threshold(a[k], t)]

InitMask ==
    /\ InstanceAtRest
    /\ ReadsAtRest
    /\ CalibAtRest
    /\ data_shape = <<0, 0>>
    /\ position = [y |-> 0, x |-> 0]
    /\ sub_image_idx = None
    /\ sub_image \in SubImages
    /\ sub_image_cen = None

\* lines 318-321
mask_sub_image ==
    /\ sub_image_cen = None
    /\ sub_image # << >>
    /\ sub_image_cen' = [mask |-> masked_values(sub_image, threshold(sub_image))]
    /\ UNCHANGED <<instance, reads, calib, data_shape, position, sub_image_idx, sub_image>>

NextMask == mask_sub_image

SpecMask == InitMask /\ [][NextMask]_vars

\* ------------------------------------------------------------- utils/data.py
\* n files found by search_files_across_directories in a directory
found(dir, n) == [k \in 1 .. n |-> [dir |-> dir, k |-> k]]

\* What happens to a science frame on its way through the loop of
\* calibrate_data: nothing, CCDData.read asks for a unit, or a ValueError is
\* raised while loading, reducing or writing it, or an exception that is no
\* ValueError is raised (such as the KeyError of a header without EXPTIME).
Faults == {"none", "unit", "load", "reduce", "write", "other"}

\* the science frames found, each named by its place in the list
ScienceLists ==
    {[k \in 1 .. Len(faults) |-> [name |-> k, fault |-> faults[k]]] :
        faults \in UNION {[1 .. m -> Faults] : m \in 0 .. MaxScience}}

\* os.path.join(output_directory, output_filename)
join(dir, name) == [dir |-> dir, name |-> name]

\* with suppress(FileNotFoundError): os.remove(output_filename)
os_remove(files, path) == {f \in files : f.path # path}

\* combine(filenames_path, output_filename, ...): the master file written
combine(files, filenames_path, path) ==
    files \cup {[path |-> path, made_from |-> filenames_path]}

\* create_master_image_stack on the file system fs: what it returns or raises,
\* and the file system it leaves.  With the default output_directory "./",
\* line 89 joins the list filenames_path with "master": os.path.join raises
\* TypeError for a list.
create_master_image_stack(fs, filenames_path, output_filename, min_number_files_in_directory, output_directory) ==
    IF Len(filenames_path) < min_number_files_in_directory
    THEN [ret |-> None, exc |-> NoError, fs |-> fs]
    ELSE IF output_directory = "./"
    THEN [ret |-> None, exc |-> Raised("TypeError", 89), fs |-> fs]
    ELSE LET path == join(output_directory, output_filename)
             dirs == fs.dirs \cup {output_directory}
             files == combine(os_remove(fs.files, path), filenames_path, path)
         IN  [ret |-> path, exc |-> NoError, fs |-> [dirs |-> dirs, files |-> files]]

\* safe_load_ccdproc(fname, 'adu').  CCDData.read(None) raises (no reader
\* takes None for a file), and not the ValueError about the unit, so the
\* exception leaves safe_load_ccdproc; a ValueError about the unit is
\* answered by reading again with unit=data_type; any other ValueError is
\* raised again (line 40).
safe_load_ccdproc(fs, fname, fault) ==
    IF fname = None THEN [exc |-> Raised("Exception", 35), data |-> None]
    ELSE IF fault = "load" THEN [exc |-> Raised("ValueError", 40), data |-> None]
    ELSE IF fault = "other" THEN [exc |-> Raised("OSError", 35), data |-> None]
    ELSE [exc |-> NoError, data |-> [file |-> fname, unit |-> "adu"]]

\* one call of create_master_image_stack, as the caller saw it
call(c, fs, filenames_path, output_filename, output_directory) ==
    [filenames_path |-> filenames_path, output_filename |-> output_filename,
     output_directory |-> output_directory, before |-> fs, after |-> c.fs,
     ret |-> c.ret, exc |-> c.exc]

InitCal ==
    /\ InstanceAtRest
    /\ ReadsAtRest
    /\ CentroidAtRest
    /\ darks_list \in {found("darks", n) : n \in 0 .. MaxCalFiles}
    /\ bias_list \in {found("bias", n) : n \in 0 .. MaxCalFiles}
    /\ flats_list \in {found("flats", n) : n \in 0 .. MaxCalFiles}
    /\ files_list \in ScienceLists
    /\ flat_correction \in BOOLEAN
    /\ verbose \in BOOLEAN
    /\ CalibIdle

\* an exception leaves calibrate_data; the temporary directory is removed
cal_raise(e) ==
    /\ cpc' = "failed"
    /\ cerr' = e
    /\ tmp_directory' = NoFiles

\* create_master_image_stack then safe_load_ccdproc, as lines 200-203,
\* 207-210 and 213-216 call them: the master loaded, or the exception
master(filenames_path, output_filename) ==
    LET c == create_master_image_stack(tmp_directory, filenames_path, output_filename,
                                       MinNumberFiles, "tmp")
        d == safe_load_ccdproc(c.fs, c.ret, "none")
    IN  [call |-> call(c, tmp_directory, filenames_path, output_filename, "tmp"),
         fs |-> c.fs, exc |-> d.exc, data |-> d.data]

\* lines 197-203: the call, the temporary directory, the master dark
calibrate_data ==
    /\ cpc = "idle"
    /\ LET m == master(darks_list, "masterdark.fits")
       IN  /\ stack_calls' = Append(stack_calls, m.call)
           /\ IF m.exc # NoError
              THEN /\ cal_raise(Raised(m.exc.exc, 203))
                   /\ UNCHANGED <<masterdark, fn_index>>
              ELSE /\ masterdark' = m.data
                   /\ tmp_directory' = m.fs
                   /\ cpc' = IF flat_correction THEN "bias" ELSE "science"
                   /\ fn_index' = IF flat_correction THEN fn_index ELSE 1
                   /\ cerr' = NoError
    /\ UNCHANGED <<instance, reads, centroid, cal_args, masterbias, masterflat,
                   cleaned, printed, fpacked>>

\* lines 207-210: the master bias, written as "masterdark.fits"
master_bias ==
    /\ cpc = "bias"
    /\ LET m == master(bias_list, "masterdark.fits")
       IN  /\ stack_calls' = Append(stack_calls, m.call)
           /\ IF m.exc # NoError
              THEN /\ cal_raise(Raised(m.exc.exc, 210))
                   /\ UNCHANGED masterbias
              ELSE /\ masterbias' = m.data
                   /\ tmp_directory' = m.fs
                   /\ cpc' = "flat"
                   /\ cerr' = NoError
    /\ UNCHANGED <<instance, reads, centroid, cal_args, masterdark, masterflat,
                   fn_index, cleaned, printed, fpacked>>

\* lines 213-234: the master flat, less bias and dark; the science list and
\* the output directory
master_flat ==
    /\ cpc = "flat"
    /\ LET m == master(flats_list, "masterflat.fits")
       IN  /\ stack_calls' = Append(stack_calls, m.call)
           /\ IF m.exc # NoError
              THEN /\ cal_raise(Raised(m.exc.exc, 216))
                   /\ UNCHANGED <<masterflat, fn_index>>
              ELSE /\ masterflat' = [file |-> m.data.file, unit |-> m.data.unit,
                                     less |-> <<masterbias.file, masterdark.file>>]
                   /\ tmp_directory' = m.fs
                   /\ cpc' = "science"
                   /\ fn_index' = 1
                   /\ cerr' = NoError
    /\ UNCHANGED <<instance, reads, centroid, cal_args, masterdark, masterbias,
                   cleaned, printed, fpacked>>

\* the loop of line 237 has a next science frame
in_science_loop == cpc = "science" /\ fn_index <= Len(files_list)

break_loop(k, n) == n + 1

\* except ValueError: continue
after_value_error(k, n) == k + 1

\* lines 238-269 with nothing raised, or with the unit asked for and given:
\* the frame is reduced and written; it is printed and fpack-ed if verbose
clean_frame ==
    /\ in_science_loop
    /\ files_list[fn_index].fault \in {"none", "unit"}
    /\ safe_load_ccdproc(tmp_directory, join("science", fn_index),
                         files_list[fn_index].fault).exc = NoError
    /\ LET name == files_list[fn_index].name
       IN  /\ cleaned' = Append(cleaned, [name |-> name, index |-> fn_index,
                                          dark |-> masterdark.file,
                                          flat |-> IF flat_correction THEN masterflat.file
                                                   ELSE None])
           /\ printed' = IF verbose THEN Append(printed, name) ELSE printed
           /\ fpacked' = IF verbose THEN Append(fpacked, name) ELSE fpacked
    /\ fn_index' = fn_index + 1
    /\ UNCHANGED <<instance, reads, centroid, cal_args, tmp_directory, masterdark,
                   masterbias, masterflat, cpc, cerr, stack_calls>>

\* lines 238-271: a ValueError from safe_load_ccdproc, subtract_dark,
\* flat_correct, CCDData or write is caught at line 270
value_error ==
    /\ in_science_loop
    /\ files_list[fn_index].fault \in {"load", "reduce", "write"}
    /\ fn_index' = after_value_error(fn_index, Len(files_list))
    /\ UNCHANGED <<instance, reads, centroid, cal_args, tmp_directory, masterdark,
                   masterbias, masterflat, cleaned, printed, fpacked, cpc, cerr,
                   stack_calls>>

\* an exception that is no ValueError, on loading the frame, leaves the loop
\* and calibrate_data
other_error ==
    /\ in_science_loop
    /\ files_list[fn_index].fault = "other"
    /\ cal_raise(Raised(safe_load_ccdproc(tmp_directory, join("science", fn_index),
                                        "other").exc.exc, 240))
    /\ UNCHANGED <<instance, reads, centroid, cal_args, masterdark, masterbias,
                   masterflat, fn_index, cleaned, printed, fpacked, stack_calls>>

\* the loop is over, the temporary directory is removed
calibrated ==
    /\ cpc = "science"
    /\ fn_index > Len(files_list)
    /\ cpc' = "done"
    /\ tmp_directory' = NoFiles
    /\ UNCHANGED <<instance, reads, centroid, cal_args, masterdark, masterbias,
                   masterflat, fn_index, cleaned, printed, fpacked, cerr, stack_calls>>

\* A call of create_master_image_stack(darks_list, "master.fits") by another
\* caller, with the default output_directory or with one of its own, in
\* which a master file may exist already.
stack_alone ==
    /\ cpc = "idle"
    /\ \E output_directory \in {"./", "masters"}, exists \in BOOLEAN :
          LET path == join(output_directory, "master.fits")
              fs == IF exists
                    THEN [dirs |-> {output_directory},
                          files |-> {[path |-> path, made_from |-> << >>]}]
                    ELSE NoFiles
              c == create_master_image_stack(fs, darks_list, "master.fits",
                                             MinNumberFiles, output_directory)
          IN  /\ stack_calls' =
                    Append(stack_calls,
                           call(c, fs, darks_list, "master.fits", output_directory))
              /\ tmp_directory' = c.fs
              /\ cerr' = c.exc
              /\ cpc' = IF c.exc = NoError THEN "returned" ELSE "failed"
    /\ UNCHANGED <<instance, reads, centroid, cal_args, masterdark, masterbias,
                   masterflat, fn_index, cleaned, printed, fpacked>>

NextCal ==
    \/ calibrate_data
    \/ master_bias
    \/ master_flat
    \/ clean_frame
    \/ value_error
    \/ other_error
    \/ calibrated
    \/ stack_alone

SpecCal == InitCal /\ [][NextCal]_vars

\* ------------------------------------------------------------- claims
\* the files of the entries of a list
files_of(list) == [k \in 1 .. Len(list) |-> list[k].fn]

\* C1: whenever get_star_data returns, the six returned sequences have the
\* length of good_frames_list, and the i-th entry of each of them comes from
\* the i-th good frame.
C1_SixListsInLockStep ==
    loop_done =>
        /\ files_of(object_counts) = good_frames_list
        /\ files_of(background_in_object) = good_frames_list
        /\ files_of(exptimes) = good_frames_list
        /\ files_of(x_pos) = good_frames_list
        /\ files_of(y_pos) = good_frames_list
        /\ files_of(times) = good_frames_list

\* a call about to return two good frames after a skipped one
C1_Witness ==
    /\ loop_done
    /\ Len(good_frames_list) >= 2
    /\ Len(read_log) > Len(good_frames_list)
    /\ ~fits_files[1].wcs

\* C2: reading a frame whose WCS is not celestial raises nothing, appends
\* nothing to the six lists or to good_frames_list, and the loop goes on with
\* the next file; a loop that ends without the geometry break has read every
\* file of the slice.
C2_NonCelestialSkipped ==
    /\ [][(pc = "extract" /\ ~brk /\ pos <= Len(fits_files)
              /\ pos <= MaxFilesProcessed /\ ~fits_files[pos].wcs)
             => /\ lists' = lists
                /\ good_frames_list' = good_frames_list
                /\ err' = NoError
                /\ pc' = "extract"
                /\ ~brk'
                /\ pos' = pos + 1]_vars
    /\ [](loop_done /\ ~brk =>
             \A k \in 1 .. Len(fits_files) :
                 k <= MaxFilesProcessed => k \in {read_log[m] : m \in 1 .. Len(read_log)})

\* a good frame measured after a skipped one
C2_Witness ==
    /\ pc = "extract"
    /\ \E a \in 1 .. Len(read_log), b \in 1 .. Len(good_frames_list) :
          /\ ~fits_files[read_log[a]].wcs
          /\ read_log[a] < good_frames_list[b]

\* C3: with r_out > box_w, get_star_data raises nothing, its six lists and
\* good_frames_list stay empty, and no file is read after the first celestial
\* one, where the violation is detected.
C3_OutOfBoxStops ==
    r * 22 > box_w * 10 =>
        /\ err.line \notin {240, 330}
        /\ pc = "extract" =>
              /\ lists = << << >>, << >>, << >>, << >>, << >>, << >> >>
              /\ good_frames_list = << >>
              /\ \A k \in 1 .. Len(read_log) - 1 : ~fits_files[read_log[k]].wcs

\* the break taken at the second file, with a file left unread
C3_Witness ==
    /\ r * 22 > box_w * 10
    /\ loop_done
    /\ brk
    /\ Len(read_log) = 2
    /\ Len(fits_files) = 3

\* C4: a frame whose aperture sum is not above the background in the aperture
\* ends the run when make_aperture measures it: AssertionError, no Outputs,
\* no summary line, no further frame or star.
C4_FaintFrameEndsRun ==
    [][(pc = "extract" /\ ~brk /\ pos <= Len(fits_files)
           /\ pos <= MaxFilesProcessed
           /\ fits_files[pos].wcs /\ fits_files[pos].kw
           /\ ~(r * 22 > box_w * 10)
           /\ fits_files[pos].pix.signal[star] + fits_files[pos].pix.sky * area(r)
                 <= fits_files[pos].pix.sky * area(r))
          => /\ err' = Raised("AssertionError", 240)
             /\ pc' = "idle"
             /\ ret' = None
             /\ rms_file' = rms_file
             /\ results' = results
             /\ read_log' = Append(read_log, pos)]_vars

\* a reference star's faint frame ended a run, with files left unread
C4_Witness ==
    /\ pc = "idle"
    /\ err = Raised("AssertionError", 240)
    /\ self_times # << >>
    /\ Len(read_log) < Len(fits_files)
    /\ ret = None

\* C5: a missing keyword is logged, the default is used, nothing propagates
\* and the extraction and do_photometry go on.
C5_MissingKeywordGoesOn ==
    /\ [][(pc = "extract" /\ ~brk /\ pos <= Len(fits_files)
              /\ pos <= MaxFilesProcessed
              /\ fits_files[pos].wcs /\ ~fits_files[pos].kw
              /\ ~(r * 22 > box_w * 10))
             => (err' = NoError /\ pc' = "extract")]_vars
    /\ [][(loop_done /\ caller = "target" /\ header # 0 /\ ~fits_files[header].kw)
             => (err' = NoError /\ pc' # "idle")]_vars

\* C6: a do_photometry run that ends after an earlier run with the same
\* detrend_data on the same instance ends the same way and with the same
\* normalized_flux and sigma_total.
C6_SecondRunIdentical ==
    [][(pc # "idle" /\ pc' = "idle" /\ last.status # "none"
           /\ last'.detrend_data = last.detrend_data)
          => /\ last'.status = last.status
             /\ last'.normalized_flux = last.normalized_flux
             /\ last'.sigma_total = last.sigma_total]_vars

\* two completed runs of at least two frames each, both with a summary line
C6_Witness ==
    /\ pc = "idle"
    /\ nruns = 2
    /\ last.status = "done"
    /\ Len(last.normalized_flux) >= 2
    /\ Len(rms_file) = 2
    /\ rms_file[1].flux = last.normalized_flux

\* C7: normalized_flux and times_clipped are of one length, entry by entry of
\* the same frame, in the order of the frames: a frame is kept in one exactly
\* when it is kept in the other.
C7_ClippedInLockStep ==
    /\ files_of(normalized_flux) = files_of(times_clipped)
    /\ \A k \in 1 .. Len(normalized_flux), m \in 1 .. Len(normalized_flux) :
          k < m => normalized_flux[k].fn < normalized_flux[m].fn
    /\ \A k \in 1 .. Len(times_clipped) :
          /\ ~fits_files[times_clipped[k].fn].pix.outlier
          /\ times_clipped[k].v = times_clipped[k].fn

\* a run that kept two points and rejected one
C7_Witness ==
    /\ last.status = "done"
    /\ Len(normalized_flux) = 2
    /\ Len(self_times) = 3
    /\ Len(times_clipped) = 2

\* C8 (as claimed): no step of a reference star's extraction changes the
\* good_frames_list or the header the target's extraction left.
C8_ExtractionsIndependent ==
    [][(caller' = "ref" /\ pc' = "extract")
          => (good_frames_list' = good_frames_list /\ header' = header)]_vars

\* C8 (amended): good_frames_list and header are shared by all extractions:
\* every call starts by emptying good_frames_list and every file read sets
\* header to that file; a reference star's extraction leaves the series kept
\* from the target unchanged, and when its loop ends good_frames_list again
\* names the target's good frames and header the last file read.
C8_SharedListRebuilt ==
    /\ [][(pc' = "extract" /\ (pc # "extract" \/ loop_done))
             => good_frames_list' = << >>]_vars
    /\ [][(pc = "extract" /\ Len(read_log') = Len(read_log) + 1)
             => header' = pos]_vars
    /\ [][(caller = "ref" /\ caller' = "ref")
             => (results' = results /\ dp'.target_flux = dp.target_flux)]_vars
    /\ [](loop_done /\ caller = "ref" =>
             /\ good_frames_list = files_of(dp.target_flux)
             /\ read_log # << >> => header = read_log[Len(read_log)])

\* a reference star's extraction of two good frames, about to return
C8_Witness ==
    /\ loop_done
    /\ caller = "ref"
    /\ Len(dp.target_flux) = 2
    /\ Len(read_log) = 3
    /\ header = 3

\* C9: get_star_data reads the files in list order and none at position 600
\* (counted from 0) or beyond.
C9_First600InOrder ==
    /\ Len(read_log) <= MaxFilesProcessed
    /\ \A k \in 1 .. Len(read_log) : read_log[k] = k

\* a list of more than 600 files, 600 of them read and measured
C9_Witness ==
    /\ Len(fits_files) > 600
    /\ loop_done
    /\ ~brk
    /\ Len(read_log) = 600
    /\ Len(good_frames_list) = 600

\* C10: a step that completes do_photometry with save_rms adds one line at
\* the end of the summary file and keeps the lines before it; every other
\* step leaves the file as it is.
C10_SummaryAppendOnly ==
    [][IF pc = "combine" /\ pc' = "idle" /\ err' = NoError /\ dp.save_rms
       THEN /\ Len(rms_file') = Len(rms_file) + 1
            /\ SubSeq(rms_file', 1, Len(rms_file)) = rms_file
       ELSE rms_file' = rms_file]_vars

\* a second line written after a first one
C10_Witness ==
    /\ Len(rms_file) = 2
    /\ pc = "idle"
    /\ ret # None

\* C11: every measurement make_aperture returns has the background in the
\* aperture equal to the median sky level times the area of the target
\* aperture, and net counts that are the raw aperture sum less that
\* background: net + background = raw sum, and the net counts are positive.
C11_NetIsSumLessBackground ==
    pc = "extract" =>
        /\ Len(background_in_object) = Len(object_counts)
        /\ \A k \in 1 .. Len(object_counts) :
              LET f == fits_files[object_counts[k].fn]
                  raw_sum == f.pix.signal[star] + f.pix.sky * (3 * r * r)
              IN  /\ background_in_object[k].fn = object_counts[k].fn
                  /\ background_in_object[k].v = f.pix.sky * (3 * r * r)
                  /\ object_counts[k].v = raw_sum - background_in_object[k].v
                  /\ object_counts[k].v + background_in_object[k].v = raw_sum
                  /\ object_counts[k].v > 0

\* two frames of a reference star measured, 7 counts above a background of 150
C11_Witness ==
    /\ pc = "extract"
    /\ star = 1
    /\ Len(object_counts) = 2
    /\ object_counts[2].v = 7
    /\ background_in_object[2].v = 150

\* C13: the reads of get_star_data, get_header and get_value choose the FITS
\* extension from the file name alone: extension 1 when the name ends with
\* ".fz", extension 0 otherwise.
C13_ExtensionFromName ==
    fits_read.reader \in {"get_star_data", "get_header", "get_value"} =>
        LET fn == fits_read.fn
            n == Len(fn)
            fz == n >= 3 /\ fn[n - 2] = "." /\ fn[n - 1] = "f" /\ fn[n] = "z"
        IN  /\ fz => fits_read.ext = 1
            /\ ~fz => fits_read.ext = 0

\* the header helper reading the compressed file "a.fz"
C13_Witness ==
    /\ fits_read.reader = "get_header"
    /\ fits_read.fn = <<"a", ".", "f", "z">>
    /\ fits_read.ext = 1

\* C14: with r_out <= box_w, while get_star_data runs and when its loop ends
\* good_frames_list is the celestial files among those read so far, out of
\* the first 600 listed, each once and in list order, and no other file: the
\* list of an earlier call is not carried over.
C14_GoodFramesAreCelestialSlice ==
    (pc = "extract" /\ ~(r * 22 > box_w * 10)) =>
        /\ pos - 1 <= Len(fits_files)
        /\ pos - 1 <= MaxFilesProcessed
        /\ good_frames_list =
              SelectSeq([k \in 1 .. pos - 1 |-> k], LAMBDA k : fits_files[k].wcs)
        /\ (pos <= Len(fits_files) /\ pos <= MaxFilesProcessed) => ~loop_done

\* a reference star's call ending with the first and third file, after the
\* target's call had listed them already
C14_Witness ==
    /\ loop_done
    /\ caller = "ref"
    /\ Len(fits_files) = 3
    /\ good_frames_list = <<1, 3>>
    /\ files_of(dp.target_flux) = <<1, 3>>

\* C15: the mask of sub_image_cen marks exactly the pixels at or below
\* median(sub_image) - 1.0 * std(sub_image), and no pixel above it.
C15_MaskAtOrBelowThreshold ==
    sub_image_cen # None =>
        \A k \in 1 .. Len(sub_image) :
            LET n == Len(sub_image)
                d == median2(sub_image) - 2 * sub_image[k]
                at_or_below == d >= 0 /\ d * d * n * n >= 4 * variance(sub_image)
            IN  sub_image_cen.mask[k] <=> at_or_below

\* C16: for every predicted position, near an edge or outside the image
\* included, the sub-image is the square of 2 * box_w rows and columns
\* centred on the truncated integer position.
C16_SquareAroundPosition ==
    sub_image_idx # None =>
        LET cx == IF position.x >= 0 THEN position.x \div 2
                  ELSE 0 - ((0 - position.x) \div 2)
            cy == IF position.y >= 0 THEN position.y \div 2
                  ELSE 0 - ((0 - position.y) \div 2)
        IN  /\ sub_image_idx.rows = (cx - box_w) .. (cx + box_w - 1)
            /\ sub_image_idx.cols = (cy - box_w) .. (cy + box_w - 1)

\* C17: within one do_photometry run, the series of every reference star has
\* the length of the target's and, entry by entry, comes from the same good
\* frame, so that each entry is divided by the target's exposure time of its
\* own frame.
C17_ReferenceAlignedWithTarget ==
    /\ (loop_done /\ caller = "ref") =>
          /\ files_of(object_counts) = files_of(dp.target_flux)
          /\ files_of(background_in_object) = files_of(dp.exptimes)
          /\ Len(dp.exptimes) = Len(dp.target_flux)
    /\ \A j \in 1 .. Len(dp.reference_star_flux_sec) :
          LET row == dp.reference_star_flux_sec[j]
              bkg == dp.background_in_ref_star_sec[j]
          IN  /\ Len(row) = Len(dp.target_flux)
              /\ Len(bkg) = Len(dp.target_flux)
              /\ \A k \in 1 .. Len(row) :
                    /\ row[k].fn = dp.target_flux[k].fn
                    /\ row[k].v[2] = dp.exptimes[k]
                    /\ row[k].v[2].fn = row[k].fn
                    /\ bkg[k].v[2].fn = bkg[k].fn

\* a reference star's series of two frames, a file having been skipped
C17_Witness ==
    /\ pc = "combine"
    /\ Len(dp.reference_star_flux_sec) = 1
    /\ files_of(dp.reference_star_flux_sec[1]) = <<2, 3>>
    /\ files_of(dp.target_flux) = <<2, 3>>

\* C18: the gain and the readout noise do_photometry uses, and the instrument
\* it reports, come from the header of the last file read by the most recent
\* get_star_data call, accepted as a good frame or not: every file read
\* replaces the header, and with an empty file list there is no header and
\* the read of the gain fails.
C18_HeaderOfLastFileRead ==
    /\ []((pc = "extract" /\ read_log # << >>) => header = read_log[Len(read_log)])
    /\ [][(loop_done /\ caller = "target" /\ dp'.j = 1)
             => /\ read_log # << >>
                /\ dp'.ccd_gain.fn = read_log[Len(read_log)]
                /\ dp'.readout.fn = read_log[Len(read_log)]]_vars
    /\ [][(pc = "combine" /\ Len(rms_file') = Len(rms_file) + 1)
             => /\ read_log # << >>
                /\ rms_file'[Len(rms_file')].instrument.fn = read_log[Len(read_log)]]_vars
    /\ [](fits_files = << >> => header = 0)
    /\ [][(fits_files = << >> /\ loop_done /\ caller = "target")
             => err' = Raised("AttributeError", 419)]_vars

\* the gain of a run of two good frames, read from the third file, which
\* was skipped
C18_Witness ==
    /\ dp.j >= 1
    /\ dp.ccd_gain.fn = 3
    /\ dp.readout.fn = 3
    /\ ~fits_files[3].wcs
    /\ files_of(dp.target_flux) = <<1, 2>>

\* C19: the tuple do_photometry returns is not clipped: its four series have
\* one entry per good frame of the target; the stored normalized_flux and
\* times_clipped have at most that many entries, and fewer when sigma
\* clipping rejected a point.
C19_ReturnedSeriesUnclipped ==
    (pc = "idle" /\ ret # None) =>
        LET n == Len(good_frames_list)
            rejected == {k \in 1 .. n : fits_files[good_frames_list[k]].pix.outlier}
        IN  /\ files_of(self_times) = good_frames_list
            /\ files_of(ret.target_flux_sec) = good_frames_list
            /\ files_of(ret.total_ref_flux_sec) = good_frames_list
            /\ files_of(ret.sigma_error) = good_frames_list
            /\ files_of(ret.times) = good_frames_list
            /\ Len(normalized_flux) = n - Cardinality(rejected)
            /\ Len(times_clipped) = n - Cardinality(rejected)
            /\ Len(normalized_flux) <= n
            /\ rejected # {} => (Len(normalized_flux) < n /\ Len(times_clipped) < n)

\* three frames returned, one of them clipped from the stored light curve
C19_Witness ==
    /\ pc = "idle"
    /\ ret # None
    /\ Len(ret.times) = 3
    /\ Len(ret.total_ref_flux_sec) = 3
    /\ Len(normalized_flux) = 2
    /\ fits_files[2].pix.outlier

\* C12: a call of create_master_image_stack with fewer than three files
\* returns None and leaves the file system as it was, and its caller goes on
\* with that; a call with enough files returns the path of the master file
\* it wrote, whatever was at that path before being removed.
C12_TooFewFilesAccepted ==
    /\ \A k \in 1 .. Len(stack_calls) :
          LET c == stack_calls[k]
              path == [dir |-> c.output_directory, name |-> c.output_filename]
          IN  /\ c.exc = NoError
              /\ IF Len(c.filenames_path) < 3
                 THEN c.ret = None /\ c.after = c.before
                 ELSE /\ c.ret = path
                      /\ c.output_directory \in c.after.dirs
                      /\ {f \in c.after.files : f.path = path}
                            = {[path |-> path, made_from |-> c.filenames_path]}
                      /\ {f \in c.after.files : f.path # path}
                            = {f \in c.before.files : f.path # path}
    /\ cpc = "failed" => cerr.line \notin {203, 210, 216}

\* C20: in calibrate_data a science frame that raises ValueError is neither
\* written nor reported and the loop goes on with the next file, so that the
\* cleaned files are the other frames in list order; the bias and flat
\* masters are built and applied exactly when flat_correction is set; a
\* file is fpack-ed only when it was written and verbose is set.
C20_ValueErrorSkipsOneFrame ==
    cpc \in {"science", "done"} =>
        LET tried == IF cpc = "done" THEN Len(files_list) ELSE fn_index - 1
            ok == SelectSeq(SubSeq(files_list, 1, tried),
                            LAMBDA f : f.fault \notin {"load", "reduce", "write"})
            names == [k \in 1 .. Len(cleaned) |-> cleaned[k].name]
        IN  /\ tried <= Len(files_list)
            /\ names = [k \in 1 .. Len(ok) |-> ok[k].name]
            /\ printed = (IF verbose THEN names ELSE << >>)
            /\ fpacked = (IF verbose THEN names ELSE << >>)
            /\ \A k \in 1 .. Len(cleaned) :
                  /\ cleaned[k].dark # None
                  /\ cleaned[k].flat # None <=> flat_correction
            /\ masterbias # None <=> flat_correction
            /\ masterflat # None <=> flat_correction
            /\ Len(stack_calls) = (IF flat_correction THEN 3 ELSE 1)

\* a frame cleaned, printed and compressed after one that raised ValueError
\* on writing
C20_Witness ==
    /\ cpc = "done"
    /\ Len(files_list) = 2
    /\ files_list[1].fault = "write"
    /\ files_list[2].fault = "unit"
    /\ flat_correction
    /\ verbose
    /\ fpacked = <<2>>
    /\ Len(cleaned) = 1

====
